---- MODULE Spec2Model ----
(***************************************************************************)
(* memoize.py: a command-memoization wrapper.  A command is traced with    *)
(* strace, the files it opened read-only are fingerprinted (md5 and        *)
(* mtime) and stored under the command string in a pickled store; a later  *)
(* call skips the command when every recorded fingerprint still matches.   *)
(*                                                                         *)
(* Values.  A path is a tuple of components, an absolute path starting     *)
(* with the component "/".  Python's None is the tuple <<"None">>, an md5  *)
(* hex digest of content c is <<"md5", c>>, a modification time t is       *)
(* <<"t", t>>; all are tuples, so that the comparisons the code makes      *)
(* between a fingerprint and None are comparisons of like values.          *)
(***************************************************************************)
EXTENDS Integers, Sequences, FiniteSets, TLC

(***************************************************************************)
(* Bounds of the model.                                                    *)
(***************************************************************************)
\* file contents are 0..MaxContent
MaxContent == 1
\* modification times of regular files are 1..MaxTime
MaxTime == 2
\* the trace output of one command has at most MaxLines lines
MaxLines == 1
\* other programs change at most MaxEdits files between two calls of memoize
MaxEdits == 1
\* the lines of a trace output of a run whose trace is observed
MaxTraceLen == 2
\* the directories add_relevant_dir appends
MaxDirs == 1

\* the commands handed to memoize
Cmds == {"cc"}

None == <<"None">>

\* the working directory of the tool
cwd == <<"/", "w">>

\* the files whose state changes in the model
FileA == <<"/", "w", "a">>
Files == {FileA}

\* a regular file under an irrelevant directory, and a directory
LibX == <<"/", "lib", "x">>
DirD == <<"/", "w", "d">>

\* a regular file of the working directory that never changes
FileB == <<"/", "w", "b">>

Contents == 0..MaxContent
Times == 1..MaxTime

Absent == [kind |-> "absent", content |-> 0, mtime |-> 0, readable |-> FALSE]
Directory == [kind |-> "dir", content |-> 0, mtime |-> 0, readable |-> TRUE]
RegularFiles == [kind : {"file"}, content : Contents, mtime : Times, readable : BOOLEAN]
FileStates == {Absent} \cup RegularFiles

\* the state of a path: Files are in fs, the others never change
Stat(fs, fname) ==
    IF fname \in Files THEN fs[fname]
    ELSE IF fname \in {LibX, FileB}
         THEN [kind |-> "file", content |-> 0, mtime |-> 1, readable |-> TRUE]
    ELSE IF fname \in {DirD, cwd, <<"/">>, <<"/", "lib">>} THEN Directory
    ELSE Absent

(***************************************************************************)
(* os.path                                                                 *)
(***************************************************************************)
isabs(p) == Len(p) > 0 /\ p[1] = "/"

isdir(fs, fname) == Stat(fs, fname).kind = "dir"

isfile(fs, fname) == Stat(fs, fname).kind = "file"

\* posixpath.normpath on the components after the root: "" and "." are
\* dropped, ".." removes the component before it (at the root of an
\* absolute path it is dropped, at the start of a relative path it stays)
RECURSIVE normcomps(_, _, _)
normcomps(comps, acc, abs) ==
    IF comps = <<>> THEN acc
    ELSE LET c == Head(comps)
             rest == Tail(comps)
         IN  IF c \in {"", "."} THEN normcomps(rest, acc, abs)
             ELSE IF c = ".."
                  THEN IF Len(acc) > 0 /\ acc[Len(acc)] # ".."
                       THEN normcomps(rest, SubSeq(acc, 1, Len(acc) - 1), abs)
                       ELSE IF abs THEN normcomps(rest, acc, abs)
                            ELSE normcomps(rest, Append(acc, ".."), abs)
                  ELSE normcomps(rest, Append(acc, c), abs)

normpath(p) ==
    IF isabs(p) THEN <<"/">> \o normcomps(Tail(p), <<>>, TRUE)
    ELSE LET n == normcomps(p, <<>>, FALSE)
         IN  IF n = <<>> THEN <<".">> ELSE n

\* posixpath.abspath: join the working directory to a relative path, normalise
abspath(p) == IF isabs(p) THEN normpath(p) ELSE normpath(cwd \o p)

\* proper string prefixes among the component names of the model
NameProperPrefix == {<<"lib", "lib64">>}

\* str.startswith on the strings of two normalised absolute paths
startswith(path1, path2) ==
    LET n == Len(path2)
    IN  IF n = 1 THEN TRUE
        ELSE /\ Len(path1) >= n
             /\ \A i \in 1..(n - 1) : path1[i] = path2[i]
             /\ \/ path1[n] = path2[n]
                \/ <<path2[n], path1[n]>> \in NameProperPrefix

(***************************************************************************)
(* Fingerprints                                                            *)
(***************************************************************************)
\* md5(data).hexdigest(), data being <<"data", c>>
md5(data) == <<"md5", data[2]>>

\* file(fname).read(): None when the open or the read raises
read(fs, fname) ==
    LET st == Stat(fs, fname)
    IN  IF st.kind = "file" /\ st.readable THEN <<"data", st.content>> ELSE None

has_key(d, k) == k \in DOMAIN d

\* the empty dict
EmptyDict == [k \in {} |-> None]

\* d[k] = v
setitem(d, k, v) == [x \in DOMAIN d \cup {k} |-> IF x = k THEN v ELSE d[x]]

\* del d[k]
delitem(d, k) == [x \in DOMAIN d \ {k} |-> d[x]]

\* md5sum(fname) with the cache saved_sums: the value returned and the cache after
md5sum(saved, fs, fname) ==
    IF has_key(saved, fname) THEN [val |-> saved[fname], saved |-> saved]
    ELSE IF isdir(fs, fname) THEN [val |-> fname, saved |-> saved]
    ELSE LET data == read(fs, fname)
         IN  IF data = None THEN [val |-> None, saved |-> saved]
             ELSE [val |-> md5(data), saved |-> setitem(saved, fname, md5(data))]

\* modtime(fname)
modtime(fs, fname) ==
    LET st == Stat(fs, fname)
    IN  IF st.kind = "dir" THEN <<"t", 1>>
        ELSE IF st.kind = "file" THEN <<"t", st.mtime>>
        ELSE None

\* files_up_to_date(files): the answer and the cache after, entry by entry
\* from position i, returning at the first mismatch
RECURSIVE up_to_date_from(_, _, _, _, _)
up_to_date_from(files, i, saved, fs, use_modtime) ==
    IF i > Len(files) THEN [ok |-> TRUE, saved |-> saved]
    ELSE LET fname == files[i][1]
             sum == md5sum(saved, fs, fname)
         IN  IF use_modtime
             THEN IF modtime(fs, fname) # files[i][3]
                  THEN [ok |-> FALSE, saved |-> saved]
                  ELSE up_to_date_from(files, i + 1, saved, fs, use_modtime)
             ELSE IF sum.val # files[i][2]
                  THEN [ok |-> FALSE, saved |-> sum.saved]
                  ELSE up_to_date_from(files, i + 1, sum.saved, fs, use_modtime)

files_up_to_date(files, saved, fs, use_modtime) ==
    up_to_date_from(files, 1, saved, fs, use_modtime)

(***************************************************************************)
(* Relevance filter                                                        *)
(***************************************************************************)
\* the initial value of opt_dirs
DefaultDirs ==
    << <<"/", "usr", "share", "">>, <<"/", "usr", "lib", "">>, <<"/", "lib">>,
       <<"/", "proc", "">>, <<"/", "etc", "">> >>

is_relevant(fname, dirs) ==
    LET path1 == abspath(fname)
    IN  \A i \in 1..Len(dirs) : ~startswith(path1, abspath(dirs[i]))

(***************************************************************************)
(* Dependency tracer                                                       *)
(***************************************************************************)
\* a line of the strace output: an open() call with its path and its access
\* mode, or the report of a process killed by a signal
OpenLine(path, flags) == [kind |-> "open", path |-> path, flags |-> flags]
KilledLine == [kind |-> "killed", path |-> <<>>, flags |-> ""]

\* a pattern that takes every open() line
match_any(line) == line.kind = "open"

\* re.match(r'.*open\("([^"]*)", .*O_RDONLY.*', line)
match(line) == line.kind = "open" /\ line.flags = "O_RDONLY"

\* re.match(r'.*killed by.*', line)
kill_match(line) == line.kind = "killed"

\* a files_dict that never holds a name
in_files_dict_never(files, name) == FALSE

\* files_dict.has_key(name): name is the path of an entry of files
in_files_dict(files, name) == \E i \in 1..Len(files) : files[i][1] = name

\* the loop of generate_deps over the lines of the trace output from line i,
\* with the files of the command's tree as they are after the command
RECURSIVE scan_output(_, _, _, _, _, _)
scan_output(output, i, files, saved, fs, dirs) ==
    IF i > Len(output) THEN [status |-> 0, files |-> files, saved |-> saved]
    ELSE IF kill_match(output[i]) THEN [status |-> 2, files |-> <<>>, saved |-> saved]
    ELSE IF match(output[i])
         THEN LET name == abspath(normpath(output[i].path))
                  sum == md5sum(saved, fs, name)
              IN  IF isfile(fs, name) /\ is_relevant(name, dirs)
                     /\ ~in_files_dict(files, name)
                  THEN scan_output(output, i + 1,
                                   Append(files, <<name, sum.val, modtime(fs, name)>>),
                                   sum.saved, fs, dirs)
                  ELSE scan_output(output, i + 1, files, saved, fs, dirs)
         ELSE scan_output(output, i + 1, files, saved, fs, dirs)

\* generate_deps(cmd): run is what os.system('strace ...') did: its return
\* value r, the trace output and the files afterwards
generate_deps(run, saved, dirs) ==
    IF run.r # 0 THEN [status |-> run.r, files |-> <<>>, saved |-> saved]
    ELSE scan_output(run.output, 1, <<>>, saved, run.fs, dirs)

(***************************************************************************)
(* Dependency store                                                        *)
(***************************************************************************)
MissingFile == [state |-> "missing", data |-> EmptyDict]
CorruptFile == [state |-> "corrupt", data |-> EmptyDict]

\* cPickle.dump(deps, f)
write_deps(deps) == [state |-> "pickle", data |-> deps]

\* read_deps(depsname): {} when the file cannot be opened or unpickled
read_deps(depsfile) ==
    IF depsfile.state = "missing" THEN EmptyDict
    ELSE IF depsfile.state = "corrupt" THEN EmptyDict
    ELSE depsfile.data

\* a lookup that takes the empty list for no record (not files)
get_falsy(deps, cmd) ==
    IF has_key(deps, cmd) /\ deps[cmd] # <<>>
    THEN [isNone |-> FALSE, list |-> deps[cmd]]
    ELSE [isNone |-> TRUE, list |-> <<>>]

\* deps.get(cmd, None): None, or the list stored under cmd
get(deps, cmd) ==
    IF has_key(deps, cmd) THEN [isNone |-> FALSE, list |-> deps[cmd]]
    ELSE [isNone |-> TRUE, list |-> <<>>]

(***************************************************************************)
(* What the processes outside the tool can do                              *)
(***************************************************************************)
\* the lines a trace output is made of
TraceLines ==
    { OpenLine(<<".", "a">>, "O_RDONLY"),
      OpenLine(LibX, "O_RDONLY"),
      KilledLine }

Outputs == UNION { [1..n -> TraceLines] : n \in 0..MaxLines }

\* the files after a command: unchanged, or one of them in another state
Effects(fs) == {fs} \cup { [fs EXCEPT ![f] = s] : f \in Files, s \in FileStates }

\* the values os.system(cmd) returns: 0, or 256 for the exit status 1
ExitStatuses == {0, 256}

\* what os.system returns when the shell cannot start strace (exit status
\* 127), which is also what it returns for a command that exits with 127
NotFound == {32512}

\* what os.system('strace ...') can do: strace cannot be started, or the
\* command exits nonzero, or it exits zero and leaves a trace output
StraceRuns(fs) ==
    { [started |-> FALSE, r |-> r, output |-> <<>>, fs |-> fs] : r \in NotFound }
    \cup { [started |-> TRUE, r |-> r, output |-> <<>>, fs |-> fs2] :
             r \in (ExitStatuses \cup NotFound) \ {0}, fs2 \in Effects(fs) }
    \cup { [started |-> TRUE, r |-> 0, output |-> out, fs |-> fs2] :
             out \in Outputs, fs2 \in Effects(fs) }

\* the lines of an observed trace output: the file a read under two
\* spellings, the file b read and written, a directory and a file of /lib
\* read, a process killed
ObservedLines ==
    { OpenLine(<<".", "a">>, "O_RDONLY"),
      OpenLine(<<"/", "w", "d", "..", "a">>, "O_RDONLY"),
      OpenLine(<<"b">>, "O_RDONLY"),
      OpenLine(<<"b">>, "O_WRONLY|O_CREAT|O_TRUNC"),
      OpenLine(DirD, "O_RDONLY"),
      OpenLine(LibX, "O_RDONLY"),
      KilledLine }

ObservedOutputs == UNION { [1..n -> ObservedLines] : n \in 0..MaxTraceLen }

\* the files after an observed run: unchanged, or one of them deleted
Deletions(fs) == {fs} \cup { [fs EXCEPT ![f] = Absent] : f \in Files }

\* what os.system('strace ...') can do in a run whose trace is observed
ObservedRuns(fs) ==
    { [started |-> FALSE, r |-> r, output |-> <<>>, fs |-> fs] : r \in NotFound }
    \cup { [started |-> TRUE, r |-> r, output |-> <<>>, fs |-> fs] :
             r \in (ExitStatuses \cup NotFound) \ {0} }
    \cup { [started |-> TRUE, r |-> 0, output |-> out, fs |-> fs2] :
             out \in ObservedOutputs, fs2 \in Deletions(fs) }

\* the directories handed to add_relevant_dir
ExtraDirs == { <<"/", "w", "">> }

\* the arguments of the script after its options
Argvs == { <<"cc", "a">>, <<"cc a">>, <<"cc  a">> }

\* ' '.join(cmd)
RECURSIVE join(_)
join(argv) ==
    IF Len(argv) = 0 THEN ""
    ELSE IF Len(argv) = 1 THEN argv[1]
    ELSE argv[1] \o " " \o join(Tail(argv))

\* the files after a command that rewrites a file it can read
Rewrites(fs) ==
    {fs} \cup { [fs EXCEPT ![f].content = c] :
                  f \in {x \in Files : fs[x].kind = "file" /\ fs[x].readable},
                  c \in Contents }

\* the trace output of a command that reads no file, or the file a
RaceOutputs == { <<>>, << OpenLine(<<".", "a">>, "O_RDONLY") >> }

\* what os.system('strace ...') can do when strace is there and the command
\* leaves every file in place
RaceRuns(fs) ==
    { [started |-> TRUE, r |-> r, output |-> <<>>, fs |-> fs] : r \in ExitStatuses \ {0} }
    \cup { [started |-> TRUE, r |-> 0, output |-> out, fs |-> fs2] :
             out \in RaceOutputs, fs2 \in Rewrites(fs) }

(***************************************************************************)
(* State                                                                   *)
(***************************************************************************)
VARIABLES
    fs,               \* the files: Files -> FileStates
    depsfile,         \* the store file .deps
    default_deps,     \* the in-memory mapping read from the store file
    saved_sums,       \* the md5 cache of the process
    opt_use_modtime,
    opt_force_build,
    opt_no_deps,
    opt_dirs,
    pc,               \* "lib": imported as a module; "main": run as a script,
                      \* options parsed; "exited": the script has ended
    exit_status,      \* the exit status of the script, None while none
    ret,              \* the value memoize returned in this step, None otherwise
    pre,              \* the record memoize looked up in this step: "norec",
                      \* "stale" or "fresh"; "none" otherwise
    outcome,          \* what the last call that ran the command did: "direct",
                      \* "recorded", "failed" (os.system returned nonzero),
                      \* "killed"; "none" before
    edits,            \* the number of files other programs have changed since
                      \* the last call of memoize returned
    rival,            \* the process that is not running now: its mapping, its
                      \* cache, its options, its position and its exit status
    traced            \* the last strace run that was observed: what os.system
                      \* returned, the trace output, what generate_deps returned

vars == <<fs, depsfile, default_deps, saved_sums, opt_use_modtime, opt_force_build,
          opt_no_deps, opt_dirs, pc, exit_status, ret, pre, outcome, edits,
          rival, traced>>

opts == <<opt_use_modtime, opt_force_build, opt_no_deps, opt_dirs>>

\* no second process
NoProcess ==
    [default_deps |-> EmptyDict, saved_sums |-> EmptyDict, opt_use_modtime |-> FALSE,
     opt_force_build |-> FALSE, opt_no_deps |-> FALSE, opt_dirs |-> DefaultDirs,
     pc |-> "none", exit_status |-> None]

\* no strace run observed
NoTrace ==
    [cmd |-> "", started |-> FALSE, r |-> 0, output |-> <<>>, status |-> 0,
     files |-> <<>>]

Init ==
    /\ fs \in [Files -> FileStates]
    /\ depsfile \in {MissingFile, CorruptFile}
    /\ default_deps = read_deps(depsfile)
    /\ saved_sums = EmptyDict
    /\ opt_use_modtime = FALSE
    /\ opt_force_build = FALSE
    /\ opt_no_deps = FALSE
    /\ opt_dirs = DefaultDirs
    /\ pc = "lib"
    /\ exit_status = None
    /\ ret = None
    /\ pre = "none"
    /\ outcome = "none"
    /\ edits = 0
    /\ rival = NoProcess
    /\ traced = NoTrace

\* no call of memoize returns in this step
NoCall == ret' = None /\ pre' = "none"

\* the module body: a new process imports memoize
ModuleBody ==
    /\ saved_sums' = EmptyDict
    /\ opt_use_modtime' = FALSE
    /\ opt_force_build' = FALSE
    /\ opt_no_deps' = FALSE
    /\ opt_dirs' = DefaultDirs
    /\ default_deps' = read_deps(depsfile)
    /\ exit_status' = None
    /\ NoCall
    /\ UNCHANGED <<fs, depsfile, outcome, edits, rival, traced>>

Import == ModuleBody /\ pc' = "lib"

\* a new process runs memoize.py as a script: the module body, then getopt
\* (t: the option -t is given)
Script(t) ==
    /\ saved_sums' = EmptyDict
    /\ opt_use_modtime' = t
    /\ opt_force_build' = FALSE
    /\ opt_no_deps' = FALSE
    /\ opt_dirs' = DefaultDirs
    /\ default_deps' = read_deps(depsfile)
    /\ exit_status' = None
    /\ pc' = "main"
    /\ NoCall
    /\ UNCHANGED <<fs, depsfile, outcome, edits, rival, traced>>

set_use_modtime(use) ==
    /\ pc = "lib"
    /\ opt_use_modtime' = use
    /\ NoCall
    /\ UNCHANGED <<fs, depsfile, default_deps, saved_sums, opt_force_build, opt_no_deps,
                   opt_dirs, pc, exit_status, outcome, edits, rival, traced>>

set_force_build(force) ==
    /\ pc = "lib"
    /\ opt_force_build' = force
    /\ NoCall
    /\ UNCHANGED <<fs, depsfile, default_deps, saved_sums, opt_use_modtime, opt_no_deps,
                   opt_dirs, pc, exit_status, outcome, edits, rival, traced>>

set_no_deps(nodeps) ==
    /\ pc = "lib"
    /\ opt_no_deps' = nodeps
    /\ NoCall
    /\ UNCHANGED <<fs, depsfile, default_deps, saved_sums, opt_use_modtime, opt_force_build,
                   opt_dirs, pc, exit_status, outcome, edits, rival, traced>>

add_relevant_dir(d) ==
    /\ pc = "lib"
    /\ Len(opt_dirs) < Len(DefaultDirs) + MaxDirs
    /\ opt_dirs' = Append(opt_dirs, d)
    /\ NoCall
    /\ UNCHANGED <<fs, depsfile, default_deps, saved_sums, opt_use_modtime,
                   opt_force_build, opt_no_deps, pc, exit_status, outcome, edits,
                   rival, traced>>

\* another program changes a file
Edit(f, s) ==
    /\ edits < MaxEdits
    /\ fs[f] # s
    /\ fs' = [fs EXCEPT ![f] = s]
    /\ edits' = edits + 1
    /\ NoCall
    /\ UNCHANGED <<depsfile, default_deps, saved_sums, opts, pc, exit_status, outcome,
                   rival, traced>>

\* the store file is left corrupt (a write was interrupted, bytes were lost)
Clobber ==
    /\ edits < MaxEdits
    /\ depsfile.state = "pickle"
    /\ depsfile' = CorruptFile
    /\ edits' = edits + 1
    /\ NoCall
    /\ UNCHANGED <<fs, default_deps, saved_sums, opts, pc, exit_status, outcome,
                   rival, traced>>

(***************************************************************************)
(* Memoization orchestrator                                                *)
(***************************************************************************)
\* not files_up_to_date(files), for the record of cmd, with the cache after it
check(deps, cmd, saved, files_now, use_modtime) ==
    files_up_to_date(get(deps, cmd).list, saved, files_now, use_modtime)

\* the test without the force flag
must_run_unforced(deps, cmd, saved, files_now, force, use_modtime) ==
    \/ get(deps, cmd).isNone
    \/ ~check(deps, cmd, saved, files_now, use_modtime).ok

\* the test without "files is None"
must_run_norecord(deps, cmd, saved, files_now, force, use_modtime) ==
    \/ force
    \/ ~check(deps, cmd, saved, files_now, use_modtime).ok

\* opt_force_build or files is None or not files_up_to_date(files)
must_run(deps, cmd, saved, files_now, force, use_modtime) ==
    \/ force
    \/ get(deps, cmd).isNone
    \/ ~check(deps, cmd, saved, files_now, use_modtime).ok

\* the cache after that test: files_up_to_date is called only when the
\* operands before it are false
saved_after_test(deps, cmd, saved, files_now, force, use_modtime) ==
    IF force \/ get(deps, cmd).isNone THEN saved
    ELSE check(deps, cmd, saved, files_now, use_modtime).saved

\* how the record of cmd stands when memoize is called
found(deps, cmd, saved, files_now, use_modtime) ==
    IF get(deps, cmd).isNone THEN "norec"
    ELSE IF check(deps, cmd, saved, files_now, use_modtime).ok THEN "fresh"
    ELSE "stale"

\* a mapping that holds the record of cmd and no other
record_deps_only(deps, cmd, status, files) ==
    IF status = 0 THEN setitem(EmptyDict, cmd, files) ELSE EmptyDict

\* a mapping that adds the list to the record cmd had
record_deps_merge(deps, cmd, status, files) ==
    IF status = 0
    THEN setitem(deps, cmd, IF has_key(deps, cmd) THEN deps[cmd] \o files ELSE files)
    ELSE IF has_key(deps, cmd) THEN delitem(deps, cmd)
    ELSE deps

\* a mapping that takes the list whatever the status
record_deps_always(deps, cmd, status, files) == setitem(deps, cmd, files)

\* a mapping that keeps the record it had when the status is not 0
record_deps_keep(deps, cmd, status, files) ==
    IF status = 0 THEN setitem(deps, cmd, files) ELSE deps

\* the mapping after generate_deps returned (status, files)
record_deps(deps, cmd, status, files) ==
    IF status = 0 THEN setitem(deps, cmd, files)
    ELSE IF has_key(deps, cmd) THEN delitem(deps, cmd)
    ELSE deps

\* bool(x) of a tuple x
truth(x) == Len(x) # 0

\* the end of the script: sys.exit(1) if memoize's value is true, else status 0
script_exit(status) == IF truth(status) THEN <<"exit", 1>> ELSE <<"exit", 0>>

\* the caller of memoize goes on: a script exits, a program continues
Return(cmd, value) ==
    /\ ret' = value
    /\ pre' = found(default_deps, cmd, saved_sums, fs, opt_use_modtime)
    /\ edits' = 0
    /\ pc' = IF pc = "main" THEN "exited" ELSE "lib"
    /\ exit_status' = IF pc = "main" THEN script_exit(value) ELSE exit_status

\* a skip that writes the mapping to the store file
memoize_skip_write(cmd) ==
    /\ pc \in {"lib", "main"}
    /\ ~must_run(default_deps, cmd, saved_sums, fs, opt_force_build, opt_use_modtime)
    /\ saved_sums' = saved_after_test(default_deps, cmd, saved_sums, fs,
                                      opt_force_build, opt_use_modtime)
    /\ depsfile' = write_deps(default_deps)
    /\ Return(cmd, <<0, 0>>)
    /\ UNCHANGED <<fs, default_deps, opts, outcome, rival, traced>>

\* memoize(cmd), the command being up to date
memoize_skip(cmd) ==
    /\ pc \in {"lib", "main"}
    /\ ~must_run(default_deps, cmd, saved_sums, fs, opt_force_build, opt_use_modtime)
    /\ saved_sums' = saved_after_test(default_deps, cmd, saved_sums, fs,
                                      opt_force_build, opt_use_modtime)
    /\ Return(cmd, <<0, 0>>)
    /\ UNCHANGED <<fs, depsfile, default_deps, opts, outcome, rival, traced>>

\* a direct run that drops the record of cmd and writes the store
memoize_direct_forget(cmd, r, files_after) ==
    /\ fs' = files_after
    /\ saved_sums' = saved_after_test(default_deps, cmd, saved_sums, fs,
                                      opt_force_build, opt_use_modtime)
    /\ outcome' = "direct"
    /\ default_deps' = IF has_key(default_deps, cmd) THEN delitem(default_deps, cmd)
                       ELSE default_deps
    /\ depsfile' = write_deps(default_deps')
    /\ Return(cmd, <<r, 1>>)
    /\ UNCHANGED <<opts, rival, traced>>

\* memoize(cmd) with opt_no_deps: os.system(cmd) returns r, the files are files_after
memoize_direct(cmd, r, files_after) ==
    /\ fs' = files_after
    /\ saved_sums' = saved_after_test(default_deps, cmd, saved_sums, fs,
                                      opt_force_build, opt_use_modtime)
    /\ outcome' = "direct"
    /\ Return(cmd, <<r, 1>>)
    /\ UNCHANGED <<depsfile, default_deps, opts, rival, traced>>

\* a traced run that returns without writing the store file
memoize_trace_unsaved(cmd, run) ==
    LET g == generate_deps(run,
                           saved_after_test(default_deps, cmd, saved_sums, fs,
                                            opt_force_build, opt_use_modtime),
                           opt_dirs)
    IN  /\ fs' = run.fs
        /\ saved_sums' = g.saved
        /\ default_deps' = record_deps(default_deps, cmd, g.status, g.files)
        /\ outcome' = IF run.r # 0 THEN "failed"
                      ELSE IF g.status # 0 THEN "killed"
                      ELSE "recorded"
        /\ Return(cmd, <<g.status, 1>>)
        /\ UNCHANGED <<depsfile, opts, rival>>

\* memoize(cmd) tracing the command
memoize_trace(cmd, run) ==
    LET g == generate_deps(run,
                           saved_after_test(default_deps, cmd, saved_sums, fs,
                                            opt_force_build, opt_use_modtime),
                           opt_dirs)
        deps == record_deps(default_deps, cmd, g.status, g.files)
    IN  /\ fs' = run.fs
        /\ saved_sums' = g.saved
        /\ default_deps' = deps
        /\ depsfile' = write_deps(deps)
        /\ outcome' = IF run.r # 0 THEN "failed"
                      ELSE IF g.status # 0 THEN "killed"
                      ELSE "recorded"
        /\ Return(cmd, <<g.status, 1>>)
        /\ UNCHANGED <<opts, rival>>

memoize(cmd) ==
    \/ memoize_skip(cmd)
    \/ /\ pc \in {"lib", "main"}
       /\ must_run(default_deps, cmd, saved_sums, fs, opt_force_build, opt_use_modtime)
       /\ opt_no_deps
       /\ \E r \in ExitStatuses, files_after \in Effects(fs) :
              memoize_direct(cmd, r, files_after)
    \/ /\ pc \in {"lib", "main"}
       /\ must_run(default_deps, cmd, saved_sums, fs, opt_force_build, opt_use_modtime)
       /\ ~opt_no_deps
       /\ \E run \in StraceRuns(fs) : memoize_trace(cmd, run) /\ UNCHANGED traced

Next ==
    \/ Import
    \/ \E t \in BOOLEAN : Script(t)
    \/ \E use \in BOOLEAN : set_use_modtime(use)
    \/ \E force \in BOOLEAN : set_force_build(force)
    \/ \E nodeps \in BOOLEAN : set_no_deps(nodeps)
    \/ \E cmd \in Cmds : memoize(cmd)
    \/ \E f \in Files, s \in FileStates : Edit(f, s)
    \/ Clobber

Spec == Init /\ [][Next]_vars

\* memoize(cmd) tracing the command, the strace run being observed
memoize_observed(cmd, run) ==
    LET g == generate_deps(run,
                           saved_after_test(default_deps, cmd, saved_sums, fs,
                                            opt_force_build, opt_use_modtime),
                           opt_dirs)
    IN  /\ pc \in {"lib", "main"}
        /\ must_run(default_deps, cmd, saved_sums, fs, opt_force_build, opt_use_modtime)
        /\ ~opt_no_deps
        /\ memoize_trace(cmd, run)
        /\ traced' = [cmd |-> cmd, started |-> run.started, r |-> run.r,
                      output |-> run.output, status |-> g.status, files |-> g.files]

\* no store file yet, and the files in their first content or absent
InitTrace ==
    /\ Init
    /\ depsfile = MissingFile
    /\ \A f \in Files : fs[f].content = 0 /\ fs[f].mtime <= 1

\* a program that imports memoize, adds directories to opt_dirs and calls
\* memoize, every strace run being observed
NextTrace ==
    \/ \E d \in ExtraDirs : add_relevant_dir(d)
    \/ \E cmd \in Cmds, run \in ObservedRuns(fs) : memoize_observed(cmd, run)

SpecTrace == InitTrace /\ [][NextTrace]_vars

\* the scheduler runs the other process: the globals of the running process
\* are set aside and those of the other process are back
Switch ==
    /\ rival' = [default_deps |-> default_deps, saved_sums |-> saved_sums,
                 opt_use_modtime |-> opt_use_modtime,
                 opt_force_build |-> opt_force_build, opt_no_deps |-> opt_no_deps,
                 opt_dirs |-> opt_dirs, pc |-> pc, exit_status |-> exit_status]
    /\ default_deps' = rival.default_deps
    /\ saved_sums' = rival.saved_sums
    /\ opt_use_modtime' = rival.opt_use_modtime
    /\ opt_force_build' = rival.opt_force_build
    /\ opt_no_deps' = rival.opt_no_deps
    /\ opt_dirs' = rival.opt_dirs
    /\ pc' = rival.pc
    /\ exit_status' = rival.exit_status
    /\ NoCall
    /\ UNCHANGED <<fs, depsfile, outcome, edits, traced>>

\* the store file is there or not, the files are readable in their first content
InitRace ==
    /\ InitTrace
    /\ \A f \in Files : fs[f].kind = "file" /\ fs[f].readable

\* two processes on one store file, each one the script run on a command line
\* (cmd = ' '.join(argv)), every strace run being observed
NextRace ==
    \/ Script(FALSE)
    \/ Switch
    \/ \E argv \in Argvs : memoize_skip(join(argv))
    \/ \E argv \in Argvs, run \in RaceRuns(fs) : memoize_observed(join(argv), run)

SpecRace == InitRace /\ [][NextRace]_vars

(***************************************************************************)
(* Properties                                                              *)
(***************************************************************************)
\* the record of cmd in deps lists the file f
Listed(deps, cmd, f) ==
    has_key(deps, cmd) /\ \E i \in 1..Len(deps[cmd]) : deps[cmd][i][1] = f

\* what a new run of the script decides for cmd with the store file and the
\* files of this state (m: the option -t is given): TRUE when it runs cmd
NextInvocationRuns(cmd, m) ==
    must_run(read_deps(depsfile), cmd, EmptyDict, fs, FALSE, m)

\* the file f is a regular file that can be read
Readable(files_now, f) == isfile(files_now, f) /\ Stat(files_now, f).readable

\* C1 (idempotence): in the state where the script ends after a traced run
\* that exited 0 and was recorded (the force and no-deps flags are off in a
\* script), every file being readable, the next invocation of the script in
\* the same mode, no file having changed, skips the command.
C1_Idempotence ==
    (pc = "exited" /\ ret # None /\ ret = <<0, 1>> /\ outcome = "recorded"
        /\ ~opt_force_build /\ ~opt_no_deps
        /\ \A f \in Files : Readable(fs, f))
    => \A c \in Cmds : ~NextInvocationRuns(c, opt_use_modtime)

\* C2 (invalidation): the last run of the command was traced and recorded, the
\* script has ended and nothing has changed since; when another program
\* then changes the content (content-hash mode) or the modification time
\* (modification-time mode) of a file listed in the record, the file being
\* readable before and after, the next invocation runs the command.
C2_Invalidation ==
    [][\A c \in Cmds, f \in Files, m \in BOOLEAN :
          ( /\ pc = "exited" /\ outcome = "recorded" /\ edits = 0
            /\ ret' = None /\ fs' # fs
            /\ Listed(read_deps(depsfile), c, f)
            /\ Readable(fs, f) /\ Readable(fs', f)
            /\ IF m THEN fs'[f].mtime # fs[f].mtime
                    ELSE fs'[f].content # fs[f].content )
          => NextInvocationRuns(c, m)']_vars

\* C3 (deletion sensitivity): when a file listed in the record a trace wrote
\* is deleted, the fingerprint of the file is None in the next invocation
\* and the next invocation runs the command, in either mode.
C3_DeletionSensitivity ==
    [][\A c \in Cmds, f \in Files, m \in BOOLEAN :
          ( /\ ret' = None /\ fs' # fs
            /\ depsfile.state = "pickle"
            /\ Listed(read_deps(depsfile), c, f)
            /\ isfile(fs, f) /\ fs'[f] = Absent )
          => ( /\ md5sum(EmptyDict, fs', f).val = None
               /\ modtime(fs', f) = None
               /\ NextInvocationRuns(c, m)' )]_vars

C5_KilledTraceNotRecorded ==
    /\ \A run \in StraceRuns(fs) :
          (run.r # 0 \/ \E i \in 1..Len(run.output) : kill_match(run.output[i]))
          => LET g == generate_deps(run, saved_sums, opt_dirs)
             IN  g.status # 0 /\ g.files = <<>>
    /\ (ret # None /\ ret[2] = 1 /\ outcome \in {"failed", "killed"})
       => /\ ret[1] # 0
          /\ \A c \in Cmds :
                /\ ~has_key(default_deps, c)
                /\ depsfile = write_deps(default_deps)
                /\ \A m \in BOOLEAN, files_then \in [Files -> FileStates] :
                      /\ must_run(read_deps(depsfile), c, EmptyDict, files_then, FALSE, m)
                      /\ must_run(default_deps, c, saved_sums, files_then, FALSE, m)

\* a command with a record was traced, a process of it was killed by a signal:
\* memoize returned (2, 1) and the record is gone
C5_Witness ==
    /\ ret = <<2, 1>> /\ outcome = "killed" /\ pre \in {"stale", "fresh"}
    /\ \A c \in Cmds : ~has_key(default_deps, c)

\* C6 (as claimed): a call of memoize that runs the command with tracing
\* disabled leaves the store as it was in memory and on disk, and the next
\* invocation runs the command, in either mode.
C6_NoDepsAlwaysReruns ==
    [][(ret' # None /\ ret'[2] = 1 /\ opt_no_deps)
          => /\ default_deps' = default_deps
             /\ depsfile' = depsfile
             /\ \A c \in Cmds, m \in BOOLEAN : NextInvocationRuns(c, m)']_vars

\* C6 (as the code behaves): a call of memoize that runs the command with
\* tracing disabled returns what os.system returned, leaves the store as it
\* was in memory and on disk, and the next invocation runs the command when
\* the store file held no record for it; a record that was there is still
\* there, and the next invocation skips the command only when there is one.
C6_NoDepsLeavesStore ==
    [][(ret' # None /\ ret'[2] = 1 /\ opt_no_deps)
          => /\ ret'[1] \in ExitStatuses
             /\ default_deps' = default_deps
             /\ depsfile' = depsfile
             /\ \A c \in Cmds, m \in BOOLEAN :
                   /\ ~has_key(read_deps(depsfile), c) => NextInvocationRuns(c, m)'
                   /\ ~NextInvocationRuns(c, m)' => has_key(read_deps(depsfile), c)
                   /\ has_key(default_deps, c) => has_key(default_deps', c)]_vars

\* a command with an up-to-date record was run with tracing disabled (the force
\* flag on), and the next invocation would skip it
C6_Witness ==
    /\ ret # None /\ ret[2] = 1 /\ outcome = "direct" /\ opt_no_deps
    /\ pre = "fresh"
    /\ \A c \in Cmds : has_key(default_deps, c) /\ ~NextInvocationRuns(c, FALSE)

\* C7 (exit status): when the script has ended, its exit status is 0 exactly
\* when the command was skipped or ran and exited zero, so that it differs
\* from the exit status of an invocation where the command exited nonzero.
C7_ExitStatus ==
    (pc = "exited" /\ ret # None)
    => (exit_status = <<"exit", 0>> <=> ret[1] = 0)

\* C8 (force flag): a call of memoize with the force flag set runs the command.
C8_ForceFlag ==
    (ret # None /\ opt_force_build) => ret[2] = 1

\* with the force flag set, a command whose record matched every file was run
C8_Witness ==
    ret # None /\ opt_force_build /\ pre = "fresh" /\ ret[2] = 1

\* C9 (corrupt store recovery): a process that starts while the store file is
\* missing or corrupt has the empty mapping; a call of memoize with the empty
\* mapping finds no record and runs the command; and a traced run made while
\* the store file is missing or corrupt leaves a store file that can be read
\* and holds the mapping in memory.
C9_CorruptStoreRecovery ==
    [][ /\ (depsfile.state # "pickle" /\ (Import \/ \E t \in BOOLEAN : Script(t)))
           => default_deps' = EmptyDict
        /\ (ret' # None /\ default_deps = EmptyDict)
           => (ret'[2] = 1 /\ pre' = "norec")
        /\ (ret' # None /\ ret'[2] = 1 /\ ~opt_no_deps /\ depsfile.state # "pickle")
           => (depsfile'.state = "pickle" /\ read_deps(depsfile') = default_deps')
      ]_vars

\* a record had been stored, the store file was then left corrupt, and the
\* script started on it has the empty mapping
C9_Witness ==
    /\ depsfile = CorruptFile /\ outcome = "recorded" /\ edits = 1
    /\ default_deps = EmptyDict /\ pc = "main"

\* C10 (empty versus absent record): a call of memoize for a command with no
\* record runs it; a call for a command whose record is the empty list, the
\* force flag off, skips it; and after a traced run that recorded the empty
\* list the next invocation skips the command, in either mode.
C10_EmptyVersusAbsent ==
    [][ret' # None
          => \A c \in Cmds :
                /\ ~has_key(default_deps, c) => ret'[2] = 1
                /\ (has_key(default_deps, c) /\ default_deps[c] = <<>>
                      /\ ~opt_force_build)
                   => ret' = <<0, 0>>
                /\ (ret'[2] = 1 /\ has_key(default_deps', c)
                      /\ default_deps'[c] = <<>> /\ ~opt_no_deps)
                   => \A m \in BOOLEAN : ~NextInvocationRuns(c, m)']_vars

\* a command whose record is the empty list was skipped
C10_Witness ==
    /\ ret = <<0, 0>> /\ pre = "fresh"
    /\ \A c \in Cmds : has_key(default_deps, c) /\ default_deps[c] = <<>>

\* the fingerprint of the file fname as it is now, in the mode m, computed
\* without a cache
Fingerprint(files_now, fname, m) ==
    IF m THEN modtime(files_now, fname) ELSE md5sum(EmptyDict, files_now, fname).val

\* C12 (post-execution fingerprints): in the state where memoize returns from
\* a traced run that was recorded, the run having been caused by a stale
\* record (the force flag off) and every file being readable, every entry of
\* the record holds the hash and the modification time of the file as it is
\* then, after the command.
C12_PostExecutionFingerprints ==
    (ret # None /\ ret = <<0, 1>> /\ outcome = "recorded" /\ pre = "stale"
        /\ ~opt_force_build /\ \A f \in Files : Readable(fs, f))
    => \A c \in Cmds :
          has_key(default_deps, c)
          => \A i \in 1..Len(default_deps[c]) :
                /\ default_deps[c][i][2] = Fingerprint(fs, default_deps[c][i][1], FALSE)
                /\ default_deps[c][i][3] = Fingerprint(fs, default_deps[c][i][1], TRUE)

\* C13 (cache transparency): in every state of a running process and in
\* either mode, files_up_to_date with the cache of the process answers True
\* for the record of a command exactly when the fingerprint of every entry's
\* file, as the file is now, equals the recorded one.
C13_CacheTransparency ==
    pc \in {"lib", "main"}
    => \A c \in Cmds, m \in BOOLEAN :
          has_key(default_deps, c)
          => ( files_up_to_date(default_deps[c], saved_sums, fs, m).ok
               <=> \A i \in 1..Len(default_deps[c]) :
                      Fingerprint(fs, default_deps[c][i][1], m)
                         = default_deps[c][i][IF m THEN 3 ELSE 2] )

\* C16 (skip has no side effects on the store): a call of memoize that does
\* not run the command returns (0, 0) and leaves the files, the mapping in
\* memory and the store file as they were.
C16_SkipLeavesStore ==
    [][(ret' # None /\ ret'[2] = 0)
          => /\ ret' = <<0, 0>>
             /\ fs' = fs
             /\ outcome' = outcome
             /\ default_deps' = default_deps
             /\ depsfile' = depsfile]_vars

\* a command was skipped while the store file was corrupt, and the file is
\* still corrupt: the mapping was not written
C16_Witness ==
    /\ ret = <<0, 0>> /\ pre = "fresh"
    /\ depsfile = CorruptFile /\ default_deps # EmptyDict

\* C19 (persistence ordering): a call of memoize that changes the mapping in
\* memory has run the command and leaves the store file holding the changed
\* mapping; a call that changes the store file is a traced run and writes the
\* mapping; hence, no other program writing the store, a store file that can
\* be read always holds the mapping in memory.
C19_PersistenceOrdering ==
    [][ /\ (ret' # None /\ default_deps' # default_deps)
           => (ret'[2] = 1 /\ depsfile' = write_deps(default_deps'))
        /\ (ret' # None /\ depsfile' # depsfile)
           => (ret'[2] = 1 /\ ~opt_no_deps /\ depsfile' = write_deps(default_deps'))
        /\ (ret' # None /\ ret'[2] = 1 /\ ~opt_no_deps)
           => depsfile' = write_deps(default_deps')
        /\ depsfile'.state = "pickle" => read_deps(depsfile') = default_deps'
      ]_vars

\* a first traced run set the record of the command and the store file holds it
C19_Witness ==
    /\ ret = <<0, 1>> /\ pre = "norec" /\ outcome = "recorded"
    /\ depsfile.state = "pickle" /\ depsfile.data = default_deps
    /\ \E c \in Cmds : has_key(default_deps, c) /\ default_deps[c] # <<>>

\* the names listed in files: no name twice, every name absolute and normalized
WellFormed(files) ==
    /\ \A i, j \in 1..Len(files) : files[i][1] = files[j][1] => i = j
    /\ \A i \in 1..Len(files) :
          isabs(files[i][1]) /\ normpath(files[i][1]) = files[i][1]

\* C14 (store record invariant): after every step every record of the mapping
\* in memory and of the store file lists each path once, in normalized
\* absolute form; and no path of a record set by a traced run starts with the
\* normalized absolute form of a directory of opt_dirs as it was in that run.
C14_StoreRecordInvariant ==
    [][ /\ \A c \in DOMAIN default_deps' : WellFormed(default_deps'[c])
        /\ \A c \in DOMAIN read_deps(depsfile') : WellFormed(read_deps(depsfile')[c])
        /\ (ret' # None /\ ret' = <<0, 1>>)
           => \A c \in Cmds :
                 /\ has_key(default_deps', c)
                 /\ \A i \in 1..Len(default_deps'[c]), k \in 1..Len(opt_dirs) :
                       ~startswith(default_deps'[c][i][1], abspath(opt_dirs[k]))
      ]_vars

\* the trace output named the file a under two spellings and the record
\* lists /w/a once
C14_Witness ==
    /\ ret = <<0, 1>>
    /\ traced.output = << OpenLine(<<".", "a">>, "O_RDONLY"),
                          OpenLine(<<"/", "w", "d", "..", "a">>, "O_RDONLY") >>
    /\ \A c \in Cmds : has_key(default_deps, c) /\ Len(default_deps[c]) = 1
                       /\ default_deps[c][1][1] = FileA

\* the line of the trace output is an open() requested read-only
ReadOnlyOpen(line) == line.kind = "open" /\ line.flags = "O_RDONLY"

\* C17 (trace output membership): in the state where memoize returns from a
\* traced run, every path of the list generate_deps returned is the normalized
\* absolute form of the target of a read-only open() of the trace output, is
\* a regular file now that the command has completed, and passes the
\* relevance filter; so a path whose every open() was for writing, a
\* directory and a file that no longer exists are not in the list.
C17_TraceMembership ==
    (ret # None /\ ret[2] = 1)
    => /\ \A i \in 1..Len(traced.files) :
             LET name == traced.files[i][1]
             IN  /\ \E k \in 1..Len(traced.output) :
                       /\ ReadOnlyOpen(traced.output[k])
                       /\ abspath(normpath(traced.output[k].path)) = name
                 /\ Stat(fs, name).kind = "file"
                 /\ \A d \in 1..Len(opt_dirs) :
                       ~startswith(abspath(name), abspath(opt_dirs[d]))
       /\ \A k \in 1..Len(traced.output) :
             LET line == traced.output[k]
                 name == abspath(normpath(line.path))
             IN  ( /\ line.kind = "open"
                   /\ \/ Stat(fs, name).kind # "file"
                      \/ \A j \in 1..Len(traced.output) :
                            abspath(normpath(traced.output[j].path)) = name
                            => ~ReadOnlyOpen(traced.output[j]) )
                 => ~in_files_dict(traced.files, name)

\* the command read the file a and opened the file b for writing only: the
\* list holds /w/a and not /w/b
C17_Witness ==
    /\ ret = <<0, 1>>
    /\ traced.output = << OpenLine(<<".", "a">>, "O_RDONLY"),
                          OpenLine(<<"b">>, "O_WRONLY|O_CREAT|O_TRUNC") >>
    /\ Len(traced.files) = 1 /\ traced.files[1][1] = FileA

\* C18 (tracer unavailable is a distinct error): when strace could not be
\* started, the value memoize returns differs from every value it returns
\* when strace started and the command exited nonzero.
C18_TracerUnavailableDistinct ==
    (ret # None /\ ret[2] = 1 /\ ~traced.started /\ traced.r # 0)
    => \A run \in ObservedRuns(fs) :
          (run.started /\ run.r # 0)
          => ret # <<generate_deps(run, saved_sums, opt_dirs).status, 1>>

\* the commands of the command lines
RaceCmds == { join(argv) : argv \in Argvs }

\* C11 (lost update): a traced run writes to the store file the mapping the
\* process read when it started, with the record of its own command set or
\* removed, whatever the store file holds by then; when the store file still
\* holds what the process has in memory (no other invocation wrote it in
\* between, as when invocations do not overlap), every record of another
\* command is in the store file afterwards, unchanged.
C11_LostUpdate ==
    [][(ret' # None /\ ret'[2] = 1)
          => /\ depsfile' = write_deps(record_deps(default_deps, traced'.cmd,
                                                   traced'.status, traced'.files))
             /\ default_deps = read_deps(depsfile)
                => \A c \in DOMAIN read_deps(depsfile) \ {traced'.cmd} :
                      /\ has_key(read_deps(depsfile'), c)
                      /\ read_deps(depsfile')[c] = read_deps(depsfile)[c]]_vars

\* both processes have ended; the other one recorded a command the running
\* one had not read, the running one then recorded its own command, and the
\* store file holds the record of the running one only
C11_Witness ==
    /\ pc = "exited" /\ rival.pc = "exited" /\ ret = <<0, 1>>
    /\ \E c1 \in RaceCmds :
          /\ c1 # traced.cmd
          /\ has_key(rival.default_deps, c1)
          /\ ~has_key(default_deps, c1)
          /\ ~has_key(read_deps(depsfile), c1)
    /\ has_key(read_deps(depsfile), traced.cmd)

\* C15 (wholesale replacement and frame): a traced run of a command that
\* succeeds sets the record of the command to the list generate_deps returned
\* for this trace, every path of it read in this trace, and leaves the
\* records of the other keys of the mapping in memory as they were; the
\* command lines "cc a" and "cc  a" are two keys.
C15_WholesaleReplacement ==
    [][(ret' # None /\ ret' = <<0, 1>>)
          => /\ DOMAIN default_deps' = DOMAIN default_deps \cup {traced'.cmd}
             /\ default_deps'[traced'.cmd] = traced'.files
             /\ \A i \in 1..Len(traced'.files) :
                   \E k \in 1..Len(traced'.output) :
                      /\ match(traced'.output[k])
                      /\ abspath(normpath(traced'.output[k].path)) = traced'.files[i][1]
             /\ \A c \in DOMAIN default_deps \ {traced'.cmd} :
                   default_deps'[c] = default_deps[c]
             /\ join(<<"cc a">>) # join(<<"cc  a">>)
             /\ join(<<"cc", "a">>) = join(<<"cc a">>)]_vars

\* the record of "cc  a" listed a file and was stale; the new trace read no
\* file and the record is the empty list, while "cc a" keeps its record
C15_Witness ==
    /\ ret = <<0, 1>> /\ pre = "stale"
    /\ traced.cmd = "cc  a" /\ traced.files = <<>>
    /\ has_key(default_deps, "cc  a") /\ default_deps["cc  a"] = <<>>
    /\ has_key(default_deps, "cc a") /\ default_deps["cc a"] # <<>>
    /\ \A f \in Files : Readable(fs, f)

====
